---- MODULE Spec2Model ----
(***************************************************************************)
(* The HTTP backend of agoraoracle: the request handlers of api/users.py   *)
(* and api/waitlist.py over the two tables users and waitlist_signups,     *)
(* with the per-request database session of db/database.py.                *)
(*                                                                         *)
(* A handler is a coroutine.  One action of the model is one database      *)
(* statement together with the handler code that runs, without suspending, *)
(* after its result arrives and up to the next await.  Requests interleave *)
(* at the awaits only.  The store runs a statement atomically on the rows  *)
(* committed so far (read committed, the default of the PostgreSQL store   *)
(* that DATABASE_URL names), hands out ids from a sequence that never      *)
(* steps back, and enforces the unique indexes of Field(unique=True).      *)
(* session.commit() of a new object is two statements, the INSERT and the  *)
(* COMMIT: the INSERT takes the id, the COMMIT makes the row visible to    *)
(* the other sessions.  The unique index makes an INSERT wait while       *)
(* another session has inserted its email, or deleted the row of its       *)
(* email, and not yet committed; the INSERT then checks the index again.   *)
(*                                                                         *)
(* Time is counted in whole days: datetime.utcnow() reads the variable     *)
(* now, which the action Tick advances between any two steps, to one of    *)
(* the instants 0, 24 hours and MaxTime days.                              *)
(*                                                                         *)
(* Two requests are served at a time (Reqs); a request slot is taken again *)
(* once its request has completed.  Each id sequence hands out MaxId ids   *)
(* (MaxSeqId where requests run one after the other).                      *)
(***************************************************************************)
EXTENDS Integers, Sequences, FiniteSets

\* ---------------------------------------------------------------- bounds
MaxTime == 8
MaxId == 2
MaxSeqId == 3
MaxPage == 1

\* ------------------------------------------------------ program constants
H24 == 1
D7 == 7
DefaultSkip == 0
DefaultLimit == 100
FirstId == 1

Reqs == {1, 2}
Emails == {"a@x.com", "b@x.com"}
SeqEmails == Emails \cup {"c@x.com"}
Ids == 1..MaxId
Instants == {0, H24, MaxTime}
PageArgs == 0..MaxPage

UserOps == {"create_user", "list_users", "get_user", "delete_user"}
WaitlistOps == {"create_waitlist_signup", "get_waitlist_stats", "list_waitlist_signups"}

VARIABLES
    now,            \* the clock datetime.utcnow() reads, in days
    users,          \* table users: the committed rows
    users_seq,      \* the next value of the id sequence of users
    waitlist,       \* table waitlist_signups: the committed rows
    waitlist_seq,   \* the next value of the id sequence of waitlist_signups
    pc,             \* per request: where its handler is suspended
    call,           \* per request: the operation and its arguments
    loc,            \* per request: the handler's local variables
    resp,           \* per request: the response (status code and body)
    sessions,       \* per request: the number of sessions it holds open
    hist            \* per request: what held when it was issued, and the times
                    \* of its clock reads (history only)

vars == <<now, users, users_seq, waitlist, waitlist_seq, pc, call, loc, resp, sessions, hist>>

\* ------------------------------------------------------------ the records
NoObj == [id |-> 0]
NoCall == [op |-> "none", email |-> "", id |-> 0, given |-> {}, skip |-> 0, limit |-> 0]
NoLoc == [obj |-> NoObj, total |-> 0, cut24 |-> 0, r24 |-> 0, cut7 |-> 0]
NoResp == [status |-> 0, body |-> <<>>]
NoHist == [issued |-> 0, t1 |-> 0, t2 |-> 0, n0 |-> 0, dup0 |-> FALSE, retired0 |-> FALSE]

\* User(email=...): id unset until the insert, the two timestamps from two
\* separate default_factory calls
User(email, created, updated) ==
    [id |-> 0, email |-> email, created_at |-> created, updated_at |-> updated]

\* WaitlistSignup.model_validate(signup): id unset, created_at from its factory
WaitlistSignup(email, created) ==
    [id |-> 0, email |-> email, created_at |-> created]

\* WaitlistStatsResponse(...)
WaitlistStatsResponse(total, r24, r7) ==
    [total_signups |-> total, recent_signups_24h |-> r24, recent_signups_7d |-> r7]

\* ------------------------------------------------------ the store's queries
\* select(T).where(T.email == email)
ByEmail(rows, email) == {w \in rows : w.email = email}

\* session.get(T, id): the rows with that primary key (none or one)
ById(rows, id) == {w \in rows : w.id = id}

\* select(func.count(T.id)) ... scalar() or 0
Count(rows) == Cardinality(rows)

\* the count with the comparison strict: a row created exactly at the
\* cutoff is left out
CountAfter(rows, cutoff) == Cardinality({w \in rows : w.created_at > cutoff})

\* select(func.count(T.id)).where(T.created_at >= cutoff)
CountSince(rows, cutoff) == Cardinality({w \in rows : w.created_at >= cutoff})

\* users.email declared without unique=True: every insert is accepted
UsersEmailNoIndex(rows, email) == TRUE

\* waitlist_signups.email declared without unique=True
WaitlistEmailNoIndex(rows, email) == TRUE

\* the unique index on users.email: does it admit a row with this email
\* beside these rows?
UsersEmailUnique(rows, email) == ByEmail(rows, email) = {}

\* the unique index on waitlist_signups.email
WaitlistEmailUnique(rows, email) == ByEmail(rows, email) = {}

Min(a, b) == IF a <= b THEN a ELSE b
Max(a, b) == IF a >= b THEN a ELSE b

\* the sequences that list every row of the set once
Listings(rows) ==
    {s \in [1..Cardinality(rows) -> rows] : \A i, j \in DOMAIN s : i # j => s[i] # s[j]}

\* order_by(created_at) without .desc(): oldest first
OrderByCreatedAsc(rows) ==
    {s \in Listings(rows) : \A i, j \in DOMAIN s : i < j => s[i].created_at <= s[j].created_at}

\* order_by(created_at.desc()): the listings newest first; the store may
\* return rows of equal created_at in either order
OrderByCreatedDesc(rows) ==
    {s \in Listings(rows) : \A i, j \in DOMAIN s : i < j => s[i].created_at >= s[j].created_at}

\* .offset(skip).limit(limit) on an ordered result
OffsetLimit(s, skip, limit) ==
    SubSeq(s, skip + 1, Min(Len(s), skip + limit))

\* the value of a query parameter: its default when the caller omits it
Param(c, name, value, default) == IF name \in c.given THEN value ELSE default

\* ------------------------------------------------------------------ Init
Init ==
    /\ now = 0
    /\ users = {}
    /\ users_seq = FirstId
    /\ waitlist = {}
    /\ waitlist_seq = FirstId
    /\ pc = [r \in Reqs |-> "idle"]
    /\ call = [r \in Reqs |-> NoCall]
    /\ loc = [r \in Reqs |-> NoLoc]
    /\ resp = [r \in Reqs |-> NoResp]
    /\ sessions = [r \in Reqs |-> 0]
    /\ hist = [r \in Reqs |-> NoHist]

\* the clock advances
Tick ==
    /\ \E t \in Instants : t > now /\ now' = t
    /\ UNCHANGED <<users, users_seq, waitlist, waitlist_seq, pc, call, loc, resp, sessions, hist>>

\* ------------------------------------------------------- the session scope
\* get_session up to its yield: async_session() opens one session
Acquire(r) == sessions' = [sessions EXCEPT ![r] = @ + 1]

\* a get_session that closes the session after the yield without
\* "async with" or try/finally: an exception thrown in at the yield skips it
CloseOnSuccess(r) ==
    sessions' = [sessions EXCEPT ![r] = IF resp[r].status \in {200, 201} THEN @ - 1 ELSE @]

\* get_session after its yield: leaving "async with" closes the session,
\* whether the handler returned or raised
Close(r) == sessions' = [sessions EXCEPT ![r] = @ - 1]

\* the handler's first stretch, from its entry to its first await
Entry(c) ==
    CASE c.op = "create_user" -> "from_orm"
      [] c.op = "list_users" -> "select"
      [] c.op = "get_user" -> "get"
      [] c.op = "delete_user" -> "get"
      [] c.op = "create_waitlist_signup" -> "check"
      [] c.op = "get_waitlist_stats" -> "total"
      [] c.op = "list_waitlist_signups" -> "select"

Table(op) == IF op \in UserOps THEN users ELSE waitlist

\* the rows that the other requests have inserted (create) or sent a
\* DELETE for (delete) and not yet committed
Uncommitted(r, op) ==
    {loc[q].obj : q \in {p \in Reqs \ {r} : call[p].op = op /\ pc[p] = "commit"}}

\* the rows of users whose fate another session's open transaction holds:
\* inserted and not committed, or there and deleted but not committed
UsersInDoubt(r) ==
    Uncommitted(r, "create_user") \cup (Uncommitted(r, "delete_user") \cap users)

\* no handler deletes a signup
WaitlistInDoubt(r) == Uncommitted(r, "create_waitlist_signup")

\* the ids the sequence handed out that have no row and get none: the row
\* was deleted, or its INSERT failed.  No later insert takes one of them.
Retired(rows, seq, id) ==
    /\ id < seq
    /\ ById(rows, id) = {}
    /\ \A q \in Reqs :
         (call[q].op \in {"create_user", "create_waitlist_signup"}
          /\ pc[q] \in {"locked", "commit"}) => loc[q].obj.id # id

\* the creates in flight that have not yet taken their id
Pending(op) == Cardinality({q \in Reqs : call[q].op = op /\ pc[q] \in {"from_orm", "check", "insert"}})

\* the id sequences are cut off at cap: a create is admitted while an id
\* is left for it
IdLeft(c, cap) ==
    /\ c.op = "create_user" => users_seq + Pending(c.op) <= cap
    /\ c.op = "create_waitlist_signup" => waitlist_seq + Pending(c.op) <= cap

\* a request arrives: FastAPI resolves Depends(get_session) and enters the
\* handler.  create_user starts User.from_orm: the created_at factory runs.
Start(r, c, cap) ==
    /\ pc[r] \in {"idle", "done"}
    /\ IdLeft(c, cap)
    /\ Acquire(r)
    /\ call' = [call EXCEPT ![r] = c]
    /\ hist' = [hist EXCEPT ![r] =
                  [issued |-> IF c.op = "get_waitlist_stats" THEN now ELSE 0,
                   t1 |-> 0,
                   t2 |-> 0,
                   n0 |-> IF c.op \in WaitlistOps THEN Count(waitlist) ELSE 0,
                   dup0 |-> ByEmail(Table(c.op), c.email) # {},
                   retired0 |-> /\ c.op \in {"get_user", "delete_user"}
                                /\ Retired(users, users_seq, c.id)]]
    /\ loc' = [loc EXCEPT ![r].obj =
                 IF c.op = "create_user"
                 THEN [id |-> 0, email |-> c.email, created_at |-> now]
                 ELSE NoObj]
    /\ resp' = [resp EXCEPT ![r] = NoResp]
    /\ pc' = [pc EXCEPT ![r] = Entry(c)]
    /\ UNCHANGED <<now, users, users_seq, waitlist, waitlist_seq>>

\* the handler returns or raises: the response is fixed, the session is
\* still to be closed
Finish(r, status, body) ==
    /\ resp' = [resp EXCEPT ![r] = [status |-> status, body |-> body]]
    /\ pc' = [pc EXCEPT ![r] = "exit"]

\* the session scope ends and the response is out: the handler's locals
\* and the response body are gone; what was asked for (operation, email,
\* id) and the status code stay on record
Release(r) ==
    /\ pc[r] = "exit"
    /\ Close(r)
    /\ pc' = [pc EXCEPT ![r] = "done"]
    /\ loc' = [loc EXCEPT ![r] = NoLoc]
    /\ hist' = [hist EXCEPT ![r] = NoHist]
    /\ resp' = [resp EXCEPT ![r].body = <<>>]
    /\ call' = [call EXCEPT ![r] = [NoCall EXCEPT !.op = call[r].op,
                                                   !.email = call[r].email,
                                                   !.id = call[r].id]]
    /\ UNCHANGED <<now, users, users_seq, waitlist, waitlist_seq>>

\* ------------------------------------------------------------ api/users.py
\* create_user, lines 17-19, second half of from_orm: the updated_at
\* factory runs; then session.add and the call of commit
CreateUserFromOrm(r) ==
    /\ pc[r] = "from_orm"
    /\ loc' = [loc EXCEPT ![r].obj = User(@.email, @.created_at, now)]
    /\ pc' = [pc EXCEPT ![r] = "insert"]
    /\ UNCHANGED <<now, users, users_seq, waitlist, waitlist_seq, call, resp, sessions, hist>>

\* create_user, line 19, the flush of commit: the INSERT takes the next id
\* of the sequence.  The unique index on email makes the INSERT wait while
\* another session holds a row of the email in doubt; it rejects a
\* duplicate of a committed row, and the IntegrityError leaves the handler
\* uncaught; otherwise the row is inserted, seen by this session only.
CreateUserInsert(r) ==
    /\ pc[r] = "insert"
    /\ call[r].op = "create_user"
    /\ users_seq' = users_seq + 1
    /\ IF ~UsersEmailUnique(UsersInDoubt(r), loc[r].obj.email)
       THEN /\ loc' = [loc EXCEPT ![r].obj.id = users_seq]
            /\ pc' = [pc EXCEPT ![r] = "locked"]
            /\ UNCHANGED resp
       ELSE IF ~UsersEmailUnique(users, loc[r].obj.email)
       THEN /\ Finish(r, 500, "IntegrityError")
            /\ UNCHANGED loc
       ELSE /\ loc' = [loc EXCEPT ![r].obj.id = users_seq]
            /\ pc' = [pc EXCEPT ![r] = "commit"]
            /\ UNCHANGED resp
    /\ UNCHANGED <<now, users, waitlist, waitlist_seq, call, sessions, hist>>

\* create_user, line 19: the sessions the INSERT waited for have ended and
\* it checks the index again: rejected if the email is committed now (the
\* insert it waited for), accepted if it is not (the delete it waited for)
CreateUserUnlocked(r) ==
    /\ pc[r] = "locked"
    /\ call[r].op = "create_user"
    /\ UsersEmailUnique(UsersInDoubt(r), loc[r].obj.email)
    /\ IF ~UsersEmailUnique(users, loc[r].obj.email)
       THEN /\ loc' = [loc EXCEPT ![r].obj.id = 0]
            /\ Finish(r, 500, "IntegrityError")
       ELSE /\ pc' = [pc EXCEPT ![r] = "commit"]
            /\ UNCHANGED <<loc, resp>>
    /\ UNCHANGED <<now, users, users_seq, waitlist, waitlist_seq, call, sessions, hist>>

\* create_user, line 19, the COMMIT of commit: the row becomes visible
CreateUserCommit(r) ==
    /\ pc[r] = "commit"
    /\ call[r].op = "create_user"
    /\ users' = users \cup {loc[r].obj}
    /\ pc' = [pc EXCEPT ![r] = "refresh"]
    /\ UNCHANGED <<now, users_seq, waitlist, waitlist_seq, call, loc, resp, sessions, hist>>

\* create_user, lines 20-21: refresh reads the row back by its id and fails
\* when it is gone
CreateUserRefresh(r) ==
    /\ pc[r] = "refresh"
    /\ call[r].op = "create_user"
    /\ IF ById(users, loc[r].obj.id) # {}
       THEN \E u \in ById(users, loc[r].obj.id) : Finish(r, 200, u)
       ELSE Finish(r, 500, "InvalidRequestError")
    /\ UNCHANGED <<now, users, users_seq, waitlist, waitlist_seq, call, loc, sessions, hist>>

\* list_users: every row, in the store's order (not modelled: the body is
\* the set of rows)
ListUsers(r) ==
    /\ pc[r] = "select"
    /\ call[r].op = "list_users"
    /\ Finish(r, 200, users)
    /\ UNCHANGED <<now, users, users_seq, waitlist, waitlist_seq, call, loc, sessions, hist>>

\* get_user
GetUser(r) ==
    /\ pc[r] = "get"
    /\ call[r].op = "get_user"
    /\ IF ById(users, call[r].id) = {}
       THEN Finish(r, 404, "User not found")
       ELSE \E u \in ById(users, call[r].id) : Finish(r, 200, u)
    /\ UNCHANGED <<now, users, users_seq, waitlist, waitlist_seq, call, loc, sessions, hist>>

\* delete_user, lines 52-55: the lookup
DeleteUserGet(r) ==
    /\ pc[r] = "get"
    /\ call[r].op = "delete_user"
    /\ IF ById(users, call[r].id) = {}
       THEN /\ Finish(r, 404, "User not found")
            /\ UNCHANGED loc
       ELSE /\ \E u \in ById(users, call[r].id) : loc' = [loc EXCEPT ![r].obj = u]
            /\ pc' = [pc EXCEPT ![r] = "delete"]
            /\ UNCHANGED resp
    /\ UNCHANGED <<now, users, users_seq, waitlist, waitlist_seq, call, sessions, hist>>

\* delete_user, line 56, the flush of commit: DELETE by primary key.  It
\* waits while another session has deleted the row and not yet committed;
\* a row that is gone by then matches nothing, which the ORM only warns
\* about.
DeleteUserDelete(r) ==
    /\ pc[r] = "delete"
    /\ ById(Uncommitted(r, "delete_user") \cap users, loc[r].obj.id) = {}
    /\ pc' = [pc EXCEPT ![r] = "commit"]
    /\ UNCHANGED <<now, users, users_seq, waitlist, waitlist_seq, call, loc, resp, sessions, hist>>

\* delete_user without the commit: the DELETE is rolled back when the
\* session closes
DeleteUserNoCommit(r) ==
    /\ pc[r] = "commit"
    /\ call[r].op = "delete_user"
    /\ Finish(r, 200, [deleted |-> TRUE])
    /\ UNCHANGED <<now, users, users_seq, waitlist, waitlist_seq, call, loc, sessions, hist>>

\* delete_user, lines 56-57, the COMMIT of commit: the row is gone for the
\* other sessions
DeleteUserCommit(r) ==
    /\ pc[r] = "commit"
    /\ call[r].op = "delete_user"
    /\ users' = users \ ById(users, loc[r].obj.id)
    /\ Finish(r, 200, [deleted |-> TRUE])
    /\ UNCHANGED <<now, users_seq, waitlist, waitlist_seq, call, loc, sessions, hist>>

\* --------------------------------------------------------- api/waitlist.py
\* create_waitlist_signup without the existence check
CreateSignupBlind(r) ==
    /\ pc[r] = "check"
    /\ loc' = [loc EXCEPT ![r].obj = WaitlistSignup(call[r].email, now)]
    /\ pc' = [pc EXCEPT ![r] = "insert"]
    /\ UNCHANGED <<now, users, users_seq, waitlist, waitlist_seq, call, resp, sessions, hist>>

\* create_waitlist_signup, lines 28-42: the existence check; then either
\* the 400, or model_validate (created_at from the clock), add and the call
\* of commit
CreateSignupCheck(r) ==
    /\ pc[r] = "check"
    /\ IF ByEmail(waitlist, call[r].email) # {}
       THEN /\ Finish(r, 400, "Email already registered on waitlist")
            /\ UNCHANGED loc
       ELSE /\ loc' = [loc EXCEPT ![r].obj = WaitlistSignup(call[r].email, now)]
            /\ pc' = [pc EXCEPT ![r] = "insert"]
            /\ UNCHANGED resp
    /\ UNCHANGED <<now, users, users_seq, waitlist, waitlist_seq, call, sessions, hist>>

\* create_waitlist_signup with the IntegrityError of the commit caught and
\* answered like the failed existence check
CreateSignupInsertCaught(r) ==
    /\ pc[r] = "insert"
    /\ call[r].op = "create_waitlist_signup"
    /\ waitlist_seq' = waitlist_seq + 1
    /\ IF ByEmail(WaitlistInDoubt(r), loc[r].obj.email) # {}
       THEN /\ loc' = [loc EXCEPT ![r].obj.id = waitlist_seq]
            /\ pc' = [pc EXCEPT ![r] = "locked"]
            /\ UNCHANGED resp
       ELSE IF ByEmail(waitlist, loc[r].obj.email) # {}
       THEN /\ Finish(r, 400, "Email already registered on waitlist")
            /\ UNCHANGED loc
       ELSE /\ loc' = [loc EXCEPT ![r].obj.id = waitlist_seq]
            /\ pc' = [pc EXCEPT ![r] = "commit"]
            /\ UNCHANGED resp
    /\ UNCHANGED <<now, users, users_seq, waitlist, call, sessions, hist>>

\* create_waitlist_signup, line 42, the flush of commit: the INSERT takes
\* the next id of the sequence.  The unique index on email makes the INSERT
\* wait while another session has inserted the email and not yet
\* committed; it rejects a duplicate of a committed row, and the
\* IntegrityError leaves the handler uncaught; otherwise the row is
\* inserted, seen by this session only.
CreateSignupInsert(r) ==
    /\ pc[r] = "insert"
    /\ call[r].op = "create_waitlist_signup"
    /\ waitlist_seq' = waitlist_seq + 1
    /\ IF ~WaitlistEmailUnique(WaitlistInDoubt(r), loc[r].obj.email)
       THEN /\ loc' = [loc EXCEPT ![r].obj.id = waitlist_seq]
            /\ pc' = [pc EXCEPT ![r] = "locked"]
            /\ UNCHANGED resp
       ELSE IF ~WaitlistEmailUnique(waitlist, loc[r].obj.email)
       THEN /\ Finish(r, 500, "IntegrityError")
            /\ UNCHANGED loc
       ELSE /\ loc' = [loc EXCEPT ![r].obj.id = waitlist_seq]
            /\ pc' = [pc EXCEPT ![r] = "commit"]
            /\ UNCHANGED resp
    /\ UNCHANGED <<now, users, users_seq, waitlist, call, sessions, hist>>

\* create_waitlist_signup, line 42: the session the INSERT waited for has
\* ended and it checks the index again: rejected, the email being
\* committed now (no handler rolls an insert back or deletes a signup)
CreateSignupUnlocked(r) ==
    /\ pc[r] = "locked"
    /\ call[r].op = "create_waitlist_signup"
    /\ WaitlistEmailUnique(WaitlistInDoubt(r), loc[r].obj.email)
    /\ IF ~WaitlistEmailUnique(waitlist, loc[r].obj.email)
       THEN /\ loc' = [loc EXCEPT ![r].obj.id = 0]
            /\ Finish(r, 500, "IntegrityError")
       ELSE /\ pc' = [pc EXCEPT ![r] = "commit"]
            /\ UNCHANGED <<loc, resp>>
    /\ UNCHANGED <<now, users, users_seq, waitlist, waitlist_seq, call, sessions, hist>>

\* create_waitlist_signup, line 42, the COMMIT of commit: the row becomes
\* visible
CreateSignupCommit(r) ==
    /\ pc[r] = "commit"
    /\ call[r].op = "create_waitlist_signup"
    /\ waitlist' = waitlist \cup {loc[r].obj}
    /\ pc' = [pc EXCEPT ![r] = "refresh"]
    /\ UNCHANGED <<now, users, users_seq, waitlist_seq, call, loc, resp, sessions, hist>>

\* create_waitlist_signup, lines 43-45: refresh and return (no handler
\* deletes a signup, so the row is there)
CreateSignupRefresh(r) ==
    /\ pc[r] = "refresh"
    /\ call[r].op = "create_waitlist_signup"
    /\ \E w \in ById(waitlist, loc[r].obj.id) : Finish(r, 201, w)
    /\ UNCHANGED <<now, users, users_seq, waitlist, waitlist_seq, call, loc, sessions, hist>>

\* get_waitlist_stats, lines 55-61: the unfiltered count; then the clock is
\* read for the 24-hour cutoff
StatsTotal(r) ==
    /\ pc[r] = "total"
    /\ loc' = [loc EXCEPT ![r].total = Count(waitlist), ![r].cut24 = now - H24]
    /\ hist' = [hist EXCEPT ![r].t1 = now]
    /\ pc' = [pc EXCEPT ![r] = "count24"]
    /\ UNCHANGED <<now, users, users_seq, waitlist, waitlist_seq, call, resp, sessions>>

\* get_waitlist_stats with timedelta(hours=7) for the 7-day cutoff: less
\* than a day before the clock read
StatsCount24Hours(r) ==
    /\ pc[r] = "count24"
    /\ loc' = [loc EXCEPT ![r].r24 = CountSince(waitlist, loc[r].cut24), ![r].cut7 = now]
    /\ hist' = [hist EXCEPT ![r].t2 = now]
    /\ pc' = [pc EXCEPT ![r] = "count7"]
    /\ UNCHANGED <<now, users, users_seq, waitlist, waitlist_seq, call, resp, sessions>>

\* get_waitlist_stats, lines 62-70: the 24-hour count; then the clock is
\* read again for the 7-day cutoff
StatsCount24(r) ==
    /\ pc[r] = "count24"
    /\ loc' = [loc EXCEPT ![r].r24 = CountSince(waitlist, loc[r].cut24), ![r].cut7 = now - D7]
    /\ hist' = [hist EXCEPT ![r].t2 = now]
    /\ pc' = [pc EXCEPT ![r] = "count7"]
    /\ UNCHANGED <<now, users, users_seq, waitlist, waitlist_seq, call, resp, sessions>>

\* get_waitlist_stats, lines 71-82: the 7-day count and the response
StatsCount7(r) ==
    /\ pc[r] = "count7"
    /\ Finish(r, 200, WaitlistStatsResponse(loc[r].total, loc[r].r24,
                                            CountSince(waitlist, loc[r].cut7)))
    /\ UNCHANGED <<now, users, users_seq, waitlist, waitlist_seq, call, loc, sessions, hist>>

\* list_waitlist_signups
ListSignups(r) ==
    /\ pc[r] = "select"
    /\ call[r].op = "list_waitlist_signups"
    /\ \E s \in OrderByCreatedDesc(waitlist) :
         Finish(r, 200, OffsetLimit(s, Param(call[r], "skip", call[r].skip, DefaultSkip),
                                       Param(call[r], "limit", call[r].limit, DefaultLimit)))
    /\ UNCHANGED <<now, users, users_seq, waitlist, waitlist_seq, call, loc, sessions, hist>>

\* ------------------------------------------------------------ the requests
UserCalls ==
    {[NoCall EXCEPT !.op = "create_user", !.email = e] : e \in Emails}
    \cup {[NoCall EXCEPT !.op = "list_users"]}
    \cup {[NoCall EXCEPT !.op = o, !.id = i] : o \in {"get_user", "delete_user"}, i \in Ids}

WaitlistCalls(emails) ==
    {[NoCall EXCEPT !.op = "create_waitlist_signup", !.email = e] : e \in emails}
    \cup {[NoCall EXCEPT !.op = "get_waitlist_stats"]}
    \cup {[NoCall EXCEPT !.op = "list_waitlist_signups", !.given = {"skip", "limit"},
                         !.skip = s, !.limit = l] : s \in PageArgs, l \in PageArgs}
    \cup {[NoCall EXCEPT !.op = "list_waitlist_signups"]}

UserStep(r) ==
    \/ CreateUserFromOrm(r)
    \/ CreateUserInsert(r)
    \/ CreateUserUnlocked(r)
    \/ CreateUserCommit(r)
    \/ CreateUserRefresh(r)
    \/ ListUsers(r)
    \/ GetUser(r)
    \/ DeleteUserGet(r)
    \/ DeleteUserDelete(r)
    \/ DeleteUserCommit(r)

WaitlistStep(r) ==
    \/ CreateSignupCheck(r)
    \/ CreateSignupInsert(r)
    \/ CreateSignupCommit(r)
    \/ CreateSignupRefresh(r)
    \/ StatsTotal(r)
    \/ StatsCount24(r)
    \/ StatsCount7(r)
    \/ ListSignups(r)

InFlight(r) == pc[r] \notin {"idle", "done"}

\* No handler touches both tables, so the two groups of handlers are
\* specified apart.
\* the users handlers, requests interleaving at their awaits
NextUsers ==
    \/ Tick
    \/ \E r \in Reqs : \E c \in UserCalls : Start(r, c, MaxId)
    \/ \E r \in Reqs : UserStep(r)
    \/ \E r \in Reqs : Release(r)

SpecUsers == Init /\ [][NextUsers]_vars

\* the waitlist handlers, requests interleaving at their awaits
NextWaitlist ==
    \/ Tick
    \/ \E r \in Reqs : \E c \in WaitlistCalls(Emails) : Start(r, c, MaxId)
    \/ \E r \in Reqs : WaitlistStep(r)
    \/ \E r \in Reqs : CreateSignupUnlocked(r)
    \/ \E r \in Reqs : Release(r)

SpecWaitlist == Init /\ [][NextWaitlist]_vars

\* the waitlist handlers, one request after the other
StartAlone(r, c) ==
    /\ \A q \in Reqs : ~InFlight(q)
    /\ Start(r, c, MaxSeqId)

NextSeq ==
    \/ Tick
    \/ \E r \in Reqs : \E c \in WaitlistCalls(SeqEmails) : StartAlone(r, c)
    \/ \E r \in Reqs : WaitlistStep(r)
    \/ \E r \in Reqs : Release(r)

SpecSeq == Init /\ [][NextSeq]_vars

\* =================================================================== claims
AtExit(r, op) == pc[r] = "exit" /\ call[r].op = op

\* ------------------------------------------------------------------- C1
\* C1: with the waitlist requests run one after the other, a create whose
\* email was in the table when it was issued ends with 400 and adds no row,
\* one whose email was not ends with 201, returns its new row and adds
\* exactly one row; either way the table then holds one row for the email.
C1_SequentialCreate ==
    \A r \in Reqs : AtExit(r, "create_waitlist_signup") =>
        /\ Cardinality({w \in waitlist : w.email = call[r].email}) = 1
        /\ hist[r].dup0 =>
             /\ resp[r].status = 400
             /\ Cardinality(waitlist) = hist[r].n0
        /\ ~hist[r].dup0 =>
             /\ resp[r].status = 201
             /\ resp[r].body \in waitlist
             /\ resp[r].body.email = call[r].email
             /\ Cardinality(waitlist) = hist[r].n0 + 1

\* a second create of a registered email has been refused
C1_Witness ==
    \E r \in Reqs :
        /\ AtExit(r, "create_waitlist_signup")
        /\ hist[r].dup0
        /\ resp[r].status = 400
        /\ Cardinality(waitlist) = 2

\* ------------------------------------------------------------------- C2
\* C2: in every reachable state, under any interleaving of the steps of the
\* create requests, no two rows of waitlist_signups have the same email.
C2_WaitlistEmailUnique ==
    \A w1, w2 \in waitlist : w1.email = w2.email => w1 = w2

\* two creates of one email have both passed the existence check and both
\* sent their INSERT; the second waited for the first, which has committed
C2_Witness ==
    \E r1, r2 \in Reqs :
        /\ call[r1].op = "create_waitlist_signup" /\ pc[r1] = "refresh"
        /\ call[r2].op = "create_waitlist_signup" /\ pc[r2] = "locked"
        /\ call[r1].email = call[r2].email
        /\ \E w \in waitlist : w.email = call[r2].email

\* ------------------------------------------------------------------- C3
\* C3: the lookup of get_user or delete_user for an id without a row ends
\* the request with 404 and changes nothing; an id that was retired (its
\* row deleted, or its INSERT failed) when the request was issued, or that
\* the sequence has not reached, has no row at the lookup.  A delete that
\* found its row returns {deleted: true} and its commit leaves no row of
\* that id, for good.
C3_NotFound ==
    [][\A r \in Reqs :
        /\ (pc[r] = "get" /\ pc'[r] # "get") =>
             /\ ById(users, call[r].id) = {} =>
                  /\ pc'[r] = "exit"
                  /\ resp'[r].status = 404
                  /\ users' = users
                  /\ users_seq' = users_seq
             /\ (hist[r].retired0 \/ call[r].id >= users_seq) =>
                  ById(users, call[r].id) = {}
             /\ ById(users, call[r].id) # {} =>
                  IF call[r].op = "delete_user"
                  THEN pc'[r] = "delete"
                  ELSE resp'[r].status = 200 /\ resp'[r].body.id = call[r].id
        /\ (pc[r] = "delete" /\ pc'[r] # "delete") =>
             /\ pc'[r] = "commit"
             /\ users' = users
        /\ (call[r].op = "delete_user" /\ pc[r] = "commit" /\ pc'[r] # "commit") =>
             /\ resp'[r].status = 200
             /\ resp'[r].body = [deleted |-> TRUE]
             /\ \A u \in users' : u.id # call[r].id
             /\ call[r].id < users_seq'
      ]_vars

\* two deletes of the same id, the second issued after the first removed
\* the row: 200 and then 404
C3_Witness ==
    \E r1, r2 \in Reqs :
        /\ call[r1].op = "delete_user" /\ pc[r1] = "done" /\ resp[r1].status = 200
        /\ AtExit(r2, "delete_user") /\ call[r2].id = call[r1].id
        /\ hist[r2].retired0
        /\ resp[r2].status = 404

\* ------------------------------------------------------------------- C4
\* C4: every successful create_user returns a row with a positive id and
\* created_at = updated_at, and every stored user has updated_at = created_at.
C4_EqualTimestamps ==
    /\ \A r \in Reqs : (AtExit(r, "create_user") /\ resp[r].status = 200) =>
         /\ resp[r].body.id >= 1
         /\ resp[r].body.created_at = resp[r].body.updated_at
    /\ \A u \in users : u.updated_at = u.created_at

\* ------------------------------------------------------------------- C5
\* C5 as claimed: when no write commits during a stats request issued at
\* time T, it returns the number of rows, the number created at or after
\* T - 24 hours and the number created at or after T - 7 days.
C5_StatsAtIssueTime ==
    \A r \in Reqs :
        (AtExit(r, "get_waitlist_stats") /\ Cardinality(waitlist) = hist[r].n0) =>
            /\ resp[r].body.total_signups = Cardinality(waitlist)
            /\ resp[r].body.recent_signups_24h =
                 Cardinality({w \in waitlist : w.created_at >= hist[r].issued - H24})
            /\ resp[r].body.recent_signups_7d =
                 Cardinality({w \in waitlist : w.created_at >= hist[r].issued - D7})

\* C5 amended: when no write commits during a stats request issued at time
\* T, it returns the number of rows, the number created at or after
\* T1 - 24 hours and the number created at or after T2 - 7 days, where
\* T <= T1 <= T2 are the times at which the handler reads the clock before
\* the second and before the third query; an empty table gives 0, 0, 0.
C5_StatsAtClockReads ==
    \A r \in Reqs :
        (AtExit(r, "get_waitlist_stats") /\ Cardinality(waitlist) = hist[r].n0) =>
            /\ hist[r].issued <= hist[r].t1
            /\ hist[r].t1 <= hist[r].t2
            /\ hist[r].t2 <= now
            /\ resp[r].body.total_signups = Cardinality(waitlist)
            /\ resp[r].body.recent_signups_24h =
                 Cardinality({w \in waitlist : w.created_at >= hist[r].t1 - H24})
            /\ resp[r].body.recent_signups_7d =
                 Cardinality({w \in waitlist : w.created_at >= hist[r].t2 - D7})
            /\ waitlist = {} => resp[r].body = WaitlistStatsResponse(0, 0, 0)

\* a stats request that no write disturbed has counted two rows, both of
\* the last 7 days and one of the last 24 hours
C5_Witness ==
    \E r \in Reqs :
        /\ AtExit(r, "get_waitlist_stats")
        /\ Cardinality(waitlist) = hist[r].n0
        /\ resp[r].body = WaitlistStatsResponse(2, 1, 2)

\* ------------------------------------------------------------------- C6
\* C6: list_waitlist_signups(skip, limit) returns min(limit, max(0, n - skip))
\* rows of the table, newest first, each at the place its creation time
\* gives it after the skip rows dropped; of three rows with distinct
\* creation times, skip = 1 and limit = 1 return the second newest alone;
\* an omitted skip is 0 and an omitted limit is 100.
C6_ListPage ==
    \A r \in Reqs : AtExit(r, "list_waitlist_signups") =>
        LET skip == IF "skip" \in call[r].given THEN call[r].skip ELSE 0
            limit == IF "limit" \in call[r].given THEN call[r].limit ELSE 100
            n == Cardinality(waitlist)
            b == resp[r].body
            Newer(w) == {v \in waitlist : v.created_at > w.created_at}
            NotOlder(w) == {v \in waitlist : v.created_at >= w.created_at}
        IN  /\ resp[r].status = 200
            /\ Len(b) = Min(limit, Max(0, n - skip))
            /\ \A i \in 1..Len(b) :
                 /\ b[i] \in waitlist
                 /\ Cardinality(Newer(b[i])) <= skip + i - 1
                 /\ Cardinality(NotOlder(b[i])) >= skip + i
            /\ \A i, j \in 1..Len(b) :
                 i < j => b[i] # b[j] /\ b[i].created_at >= b[j].created_at
            /\ ( /\ n = 3
                 /\ \A v, w \in waitlist : v # w => v.created_at # w.created_at
                 /\ skip = 1
                 /\ limit = 1 ) =>
                 b = <<CHOOSE w \in waitlist : Cardinality(Newer(w)) = 1>>

\* three signups inserted one after the other at three different times,
\* and skip = 1, limit = 1 has returned the second of them
C6_Witness ==
    \E r \in Reqs :
        /\ AtExit(r, "list_waitlist_signups")
        /\ call[r].given = {"skip", "limit"} /\ call[r].skip = 1 /\ call[r].limit = 1
        /\ Cardinality(waitlist) = 3
        /\ \A v, w \in waitlist : v # w => v.created_at # w.created_at
        /\ Len(resp[r].body) = 1
        /\ resp[r].body[1].id = 2

\* ------------------------------------------------------------------- C7
\* C7: a request holds exactly one open session from its arrival until its
\* session scope ends, and none before or after, however the handler ended;
\* so with no request in flight no session is open.
C7_SessionScope ==
    \A r \in Reqs : sessions[r] = IF InFlight(r) THEN 1 ELSE 0

\* one request has ended in an unhandled store error, another in a 404,
\* and both sessions are closed
C7_Witness ==
    \E r1, r2 \in Reqs :
        /\ pc[r1] = "done" /\ resp[r1].status = 500 /\ sessions[r1] = 0
        /\ pc[r2] = "done" /\ resp[r2].status = 404 /\ sessions[r2] = 0

\* ------------------------------------------------------------------- C8
\* C8: a create that passed the existence check ends either with 201 and
\* its own row in the table, or, another request having committed the same
\* email meanwhile, with the uncaught IntegrityError (500, not 400) and no
\* row of its own; of two creates of one email that both passed the check,
\* never both have their INSERT accepted, and when both have ended one has
\* 201, the other 500.
C8_Passed(r) ==
    /\ call[r].op = "create_waitlist_signup"
    /\ \/ pc[r] \in {"insert", "locked", "commit", "refresh"}
       \/ pc[r] = "exit" /\ loc[r].obj # NoObj
       \/ pc[r] = "done" /\ resp[r].status # 400

C8_Inserted(r) ==
    pc[r] \in {"commit", "refresh"} \/ (pc[r] \in {"exit", "done"} /\ resp[r].status = 201)

C8_RaceEndsInServerError ==
    /\ \A r \in Reqs : (AtExit(r, "create_waitlist_signup") /\ loc[r].obj # NoObj) =>
         \/ /\ resp[r].status = 201
            /\ resp[r].body \in waitlist
            /\ resp[r].body.id = loc[r].obj.id
         \/ /\ resp[r].status = 500
            /\ resp[r].body = "IntegrityError"
            /\ loc[r].obj.id = 0
            /\ \E w \in waitlist : w.email = call[r].email
    /\ \A r1, r2 \in Reqs :
         (r1 # r2 /\ C8_Passed(r1) /\ C8_Passed(r2) /\ call[r1].email = call[r2].email) =>
            /\ ~(C8_Inserted(r1) /\ C8_Inserted(r2))
            /\ (pc[r1] \in {"exit", "done"} /\ pc[r2] \in {"exit", "done"}) =>
                 {resp[r1].status, resp[r2].status} = {201, 500}

\* both creates of an email absent when they were issued have ended: one
\* with 201, the other with the IntegrityError although the email is now
\* registered
C8_Witness ==
    \E r1, r2 \in Reqs :
        /\ AtExit(r1, "create_waitlist_signup") /\ resp[r1].status = 201
        /\ AtExit(r2, "create_waitlist_signup") /\ resp[r2].status = 500
        /\ call[r1].email = call[r2].email
        /\ ~hist[r1].dup0 /\ ~hist[r2].dup0

\* ------------------------------------------------------------------- C9
\* C9: create_user goes to its commit without any check.  The INSERT that
\* the commit sends waits while another session holds a row of the email in
\* doubt (inserted or deleted, not committed).  When the index decides, at
\* once or after the wait, an email that is in users ends the request with
\* the uncaught IntegrityError (500) and no row added; only an INSERT for
\* an email that is not in users is accepted and committed, adding its own
\* row.  users never holds two rows with the same email.
C9_UserDuplicateUnhandled ==
    [][ /\ \A u1, u2 \in users' : u1.email = u2.email => u1 = u2
        /\ \A r \in Reqs :
             (call[r].op = "create_user" /\ pc[r] = "from_orm" /\ pc'[r] # "from_orm") =>
                 pc'[r] = "insert"
        /\ \A r \in Reqs :
             (call[r].op = "create_user" /\ pc[r] \in {"insert", "locked"} /\ pc'[r] # pc[r]) =>
                 /\ users' = users
                 /\ IF \E u \in UsersInDoubt(r) : u.email = call[r].email
                    THEN pc[r] = "insert" /\ pc'[r] = "locked"
                    ELSE IF \E u \in users : u.email = call[r].email
                    THEN /\ pc'[r] = "exit"
                         /\ resp'[r].status = 500
                         /\ resp'[r].body = "IntegrityError"
                    ELSE pc'[r] = "commit"
        /\ \A r \in Reqs :
             (call[r].op = "create_user" /\ pc[r] = "commit" /\ pc'[r] # "commit") =>
                 /\ pc'[r] = "refresh"
                 /\ ~ \E u \in users : u.email = call[r].email
                 /\ Cardinality(users') = Cardinality(users) + 1
                 /\ \E u \in users' \ users : u.email = call[r].email
      ]_vars

\* a create_user of an email that was registered when it was issued has
\* failed at its commit
C9_Witness ==
    \E r \in Reqs :
        /\ AtExit(r, "create_user")
        /\ hist[r].dup0
        /\ resp[r].status = 500
        /\ Cardinality({u \in users : u.email = call[r].email}) = 1

\* ------------------------------------------------------------------ C10
\* C10 as claimed: every stats response has recent_signups_24h <=
\* recent_signups_7d.
C10_RecentOrdered ==
    \A r \in Reqs : AtExit(r, "get_waitlist_stats") =>
        resp[r].body.recent_signups_24h <= resp[r].body.recent_signups_7d

\* C10 amended: a stats response has recent_signups_24h <= recent_signups_7d
\* whenever the handler's second clock read is at most 6 days after its
\* first (the 7-day cutoff is then not after the 24-hour cutoff), also when
\* creates commit between the queries.
C10_RecentOrderedWithin6Days ==
    \A r \in Reqs :
        (AtExit(r, "get_waitlist_stats") /\ hist[r].t2 - hist[r].t1 <= D7 - H24) =>
            resp[r].body.recent_signups_24h <= resp[r].body.recent_signups_7d

\* a create has committed between the first and the second query: the
\* 24-hour count exceeds the total, and the 7-day count is not below it
C10_Witness ==
    \E r \in Reqs :
        /\ AtExit(r, "get_waitlist_stats")
        /\ hist[r].t2 - hist[r].t1 <= D7 - H24
        /\ resp[r].body.recent_signups_24h > resp[r].body.total_signups
        /\ resp[r].body.recent_signups_24h <= resp[r].body.recent_signups_7d

====
